---------------------------- MODULE Spec2Model ----------------------------
(***************************************************************************)
(* VAIL (tf2rl/algos/vail.py): the discriminator with a variational        *)
(* information bottleneck, its training step with the dual-ascent update   *)
(* of the regularisation coefficient beta, and reward inference.           *)
(*                                                                         *)
(* Numbers.  float32 values are fixed-point integers:                      *)
(*   - probabilities, log values, KL values, kl_target, accuracy: units of *)
(*     1/Scale (Scale = 1000);                                             *)
(*   - means, log-stds, weights, features, noise: whole numbers;           *)
(*   - beta (_reg_param): units of _step_reg_param/Scale = 1e-8, so that   *)
(*     the dual-ascent increment 1e-5 * (kl_loss - kl_target) is exact;    *)
(*   - the composite loss: units of 1e-8, about the resolution of a       *)
(*     float32 of its magnitude.                                           *)
(* exp, sigmoid and log are tables rounded to 1/Scale; a division rounds   *)
(* down, as a float division rounds.                                       *)
(*                                                                         *)
(* The network is the smallest instance of the constructor's arguments:    *)
(* state_shape = (1,), action_dim = 1, units = [1, 1], n_latent_units = 1. *)
(* A Dense layer is activation(w . x + b).                                 *)
(*                                                                         *)
(* Inputs.  Batches have one or two samples with entries 0 or 1; a draw of *)
(* the noise is -1 or 1 per sample; the parameters range over four points  *)
(* (Theta).  _train_body is modelled statement by statement, its arguments *)
(* read where they are first used; no other call runs while it is in       *)
(* progress (the program is single-threaded).                              *)
(***************************************************************************)
EXTENDS Integers, Sequences, FiniteSets, TLC

VARIABLES
    theta,          \* self.disc.trainable_variables: the weights of the five layers
    reg_param,      \* self._reg_param (beta), in units of 1e-8
    iterations,     \* self.optimizer.iterations: optimizer updates applied so far
    pc,             \* position inside _train_body, "idle" between calls
    call,           \* the call in progress or the last call: operation and arguments
    real,           \* local: (real_logits, real_means, real_logstds) of line 102
    fake,           \* local: (fake_logits, fake_means, fake_logstds) of line 104
    tape,           \* locals of lines 106-112: disc_loss, real_kl, fake_kl, kl_loss, loss
    ret,            \* what the last call returned or raised
    _kl_target,     \* self._kl_target, in units of 1/Scale
    _step_reg_param,\* self._step_reg_param, in units of 1e-5
    pre,            \* history: theta and beta when the training step in progress began
    nTrain,         \* history: completed training steps
    nAssign         \* history: executions of self._reg_param.assign

vars == <<theta, reg_param, iterations, pc, call, real, fake, tape, ret,
          _kl_target, _step_reg_param, pre, nTrain, nAssign>>

\* The attributes no method of VAIL assigns after __init__.
hyper == <<_kl_target, _step_reg_param>>

-----------------------------------------------------------------------------
(* Bounds and units *)

\* Training steps a behaviour may start.
MaxSteps == 2

\* Batch sizes (leading dimensions) the trainer passes.
BatchSizes == {1, 2}

\* Entries of a state or an action vector.
FeatureValues == {0, 1}

\* Draws of tf.random.normal, one per sample (one latent unit).
NoiseValues == {-1, 1}

\* Fixed-point resolution.
Scale == 10 ^ 3

\* _step_reg_param = tf.constant(1e-5) (line 72), in units of 1e-5.
StepRegParam == 1

\* Units of the composite loss (1e-8) in one unit of disc_loss (1/Scale).
LossUnits == 10 ^ 5

\* kl_target = 0.5, the constructor's default (line 60), in units of 1/Scale.
kl_target == Scale \div 2

\* reg_param, the constructor's argument (line 61, default 0.), in units of 1e-8.
InitRegParams == {0, 300}

LOG_SIG_CAP_MAX == 2

LOG_SIG_CAP_MIN == -20

\* A local that holds nothing.
None == <<>>

\* No call yet, or the last call's frame is gone.
NoCall == [op |-> "none"]

NoReturn == [status |-> "none", value |-> None]

\* What tf.concat raises on operands that do not fit (a ValueError while a
\* tf.function is traced, an InvalidArgumentError in eager mode).
ShapeError == "shape error"

-----------------------------------------------------------------------------
(* Tensors: [shape |-> <<n, d>>, data |-> <<row_1, ..., row_n>>] of rank 2,  *)
(* [shape |-> <<d>>, data |-> <<v_1, ..., v_d>>] of rank 1.                  *)

Vectors(d) == [1..d -> FeatureValues]

Rank1Tensors == {[shape |-> <<1>>, data |-> v] : v \in Vectors(1)}

Rank2Tensors(n) == {[shape |-> <<n, 1>>, data |-> rows] : rows \in [1..n -> Vectors(1)]}

BatchTensors == UNION {Rank2Tensors(n) : n \in BatchSizes}

\* What the rollout passes to inference: one sample, as a vector or as a batch of one.
InferenceTensors == Rank1Tensors \cup Rank2Tensors(1)

ndim(t) == Len(t.shape)

\* np.expand_dims(t, axis=0)
expand_dims(t) == [shape |-> <<1>> \o t.shape, data |-> <<t.data>>]

\* A fit test that lets a shorter first operand through.
ConcatOkLeq(inputs) ==
    /\ ndim(inputs[1]) = 2
    /\ ndim(inputs[2]) = 2
    /\ inputs[1].shape[1] <= inputs[2].shape[1]

\* tf.concat(inputs, axis=1) is defined when both tensors have the same rank,
\* at least 2, and agree on every dimension but axis 1.
ConcatOk(inputs) ==
    /\ ndim(inputs[1]) = 2
    /\ ndim(inputs[2]) = 2
    /\ inputs[1].shape[1] = inputs[2].shape[1]

concat(inputs) ==
    [i \in 1..inputs[1].shape[1] |-> inputs[1].data[i] \o inputs[2].data[i]]

-----------------------------------------------------------------------------
(* Numeric primitives *)

Max(a, b) == IF a >= b THEN a ELSE b

Min(a, b) == IF a <= b THEN a ELSE b

RECURSIVE reduce_sum(_)
reduce_sum(s) == IF s = <<>> THEN 0 ELSE Head(s) + reduce_sum(Tail(s))

\* tf.reduce_mean of a non-empty vector.
reduce_mean(s) == reduce_sum(s) \div Len(s)

Relu(x) == Max(x, 0)

\* The value as the log-std head gives it.
NoClip(x, lo, hi) == x

\* tf.clip_by_value(x, lo, hi)
clip_by_value(x, lo, hi) == Min(Max(x, lo), hi)

\* Scale * e^l rounded, for l in LOG_SIG_CAP_MIN..LOG_SIG_CAP_MAX.
ExpTab ==
    [l \in LOG_SIG_CAP_MIN..LOG_SIG_CAP_MAX |->
        CASE l = 2  -> 7389
          [] l = 1  -> 2718
          [] l = 0  -> 1000
          [] l = -1 -> 368
          [] l = -2 -> 135
          [] l = -3 -> 50
          [] l = -4 -> 18
          [] l = -5 -> 7
          [] l = -6 -> 2
          [] l = -7 -> 1
          [] OTHER  -> 0]

\* tf.math.exp on a whole-number log-std: the table inside the caps, and
\* e^l = e * e^(l-1) above them, 0 at this resolution below them.
RECURSIVE Exp(_)
Exp(l) == IF l > LOG_SIG_CAP_MAX THEN (Exp(l - 1) * 2718) \div Scale
          ELSE IF l < LOG_SIG_CAP_MIN THEN 0
          ELSE ExpTab[l]

\* tf.square of a fixed-point value.
Square(x) == (x * x) \div Scale

\* Scale * sigmoid(z) rounded, z a whole number; saturated beyond |z| = 3.
SigTab ==
    [z \in -3..3 |->
        CASE z = -3 -> 47
          [] z = -2 -> 119
          [] z = -1 -> 269
          [] z = 0  -> 500
          [] z = 1  -> 731
          [] z = 2  -> 881
          [] z = 3  -> 953]

\* The sigmoid activation on a fixed-point pre-activation, rounded to the
\* nearest table entry.
Sigmoid(z) == SigTab[Min(Max((2 * z + Scale) \div (2 * Scale), -3), 3)]

\* tf.math.log(p + 1e-8) on a value of SigTab (1e-8 is below the resolution).
Log(p) ==
    CASE p = 47  -> -3058
      [] p = 119 -> -2129
      [] p = 269 -> -1313
      [] p = 500 -> -693
      [] p = 731 -> -313
      [] p = 881 -> -127
      [] p = 953 -> -48


-----------------------------------------------------------------------------
(* Discriminator *)

\* A Dense layer of one unit with a linear activation: w . x + b.
Dense(layer, x) ==
    reduce_sum([k \in 1..Len(x) |-> layer.w[k] * x[k]]) + layer.b

\* Parameter points: the values the trainable variables take in the model.
\*   ThetaA: mean 1, log-std 0 for every sample (KL = 0.5 each); the output
\*           head reads the latent, so the noise decides the probability.
\*   ThetaB: mean 2 relu(s + a - 1), log-std 0 (KL 0 or 2); constant output 0.5.
\*   ThetaC: raw log-std -21, below the lower cap, so the noise is scaled to
\*           nothing; mean relu(s + a) - 1 decides the probability, which
\*           is below, at or above 0.5.
\*   ThetaD: raw log-std 3, above the upper cap; constant output.
ThetaA ==
    [l1 |-> [w |-> <<1, 1>>, b |-> 0], l2 |-> [w |-> <<1>>, b |-> 0],
     l_mean |-> [w |-> <<0>>, b |-> 1], l_logstd |-> [w |-> <<0>>, b |-> 0],
     l3 |-> [w |-> <<1>>, b |-> -1]]

ThetaB ==
    [l1 |-> [w |-> <<1, 1>>, b |-> -1], l2 |-> [w |-> <<1>>, b |-> 0],
     l_mean |-> [w |-> <<2>>, b |-> 0], l_logstd |-> [w |-> <<0>>, b |-> 0],
     l3 |-> [w |-> <<0>>, b |-> 0]]

ThetaC ==
    [l1 |-> [w |-> <<1, 1>>, b |-> 0], l2 |-> [w |-> <<1>>, b |-> 0],
     l_mean |-> [w |-> <<1>>, b |-> -1], l_logstd |-> [w |-> <<0>>, b |-> -21],
     l3 |-> [w |-> <<1>>, b |-> 0]]

ThetaD ==
    [l1 |-> [w |-> <<1, 1>>, b |-> 0], l2 |-> [w |-> <<1>>, b |-> 0],
     l_mean |-> [w |-> <<0>>, b |-> 0], l_logstd |-> [w |-> <<0>>, b |-> 3],
     l3 |-> [w |-> <<0>>, b |-> 1]]

Theta == {ThetaA, ThetaB, ThetaC, ThetaD}

\* Lines 35-36 and 46-47: the two hidden layers on one row of features.
Hidden(th, x) == Relu(Dense(th.l2, <<Relu(Dense(th.l1, x))>>))

\* Line 37 / 48.
Means(th, features) ==
    [i \in 1..Len(features) |-> Dense(th.l_mean, <<Hidden(th, features[i])>>)]

\* Lines 38-40.
Logstds(th, features) ==
    [i \in 1..Len(features) |->
        clip_by_value(Dense(th.l_logstd, <<Hidden(th, features[i])>>),
                      LOG_SIG_CAP_MIN, LOG_SIG_CAP_MAX)]

\* self.l3 on fixed-point latents: sigmoid(w * z + b).
L3(th, latents) ==
    [i \in 1..Len(latents) |->
        Sigmoid(th.l3.w[1] * latents[i] + th.l3.b * Scale)]

NoiseFor(t) == [1..t.shape[1] -> NoiseValues]

\* Discriminator.call (lines 33-42); noise is the draw of tf.random.normal.
Call(th, inputs, noise) ==
    IF ~ConcatOk(inputs) THEN [ok |-> FALSE]
    ELSE LET features == concat(inputs)
             means == Means(th, features)
             logstds == Logstds(th, features)
             latents == [i \in 1..Len(features) |->
                            means[i] * Scale + noise[i] * Exp(logstds[i])]
         IN  [ok |-> TRUE, logits |-> L3(th, latents), means |-> means,
              logstds |-> logstds]

\* Discriminator.compute_reward (lines 44-49).
compute_reward(th, inputs) ==
    IF ~ConcatOk(inputs) THEN [ok |-> FALSE]
    ELSE LET means == Means(th, concat(inputs))
         IN  [ok |-> TRUE,
              probs |-> L3(th, [i \in 1..Len(means) |-> means[i] * Scale])]

-----------------------------------------------------------------------------
(* VAIL *)

\* VAIL._compute_kl (lines 84-95), one KL value per sample; with one latent
\* unit the sum over the last axis has a single term.
_compute_kl(means, log_stds) ==
    [i \in 1..Len(means) |->
        (-log_stds[i]) * Scale
        + (means[i] * means[i] * Scale + Square(Exp(log_stds[i])) - Scale) \div 2]

\* Lines 106-107.
DiscLoss(real_logits, fake_logits) ==
    -(reduce_mean([i \in 1..Len(real_logits) |-> Log(real_logits[i])])
      + reduce_mean([i \in 1..Len(fake_logits) |-> Log(Scale - fake_logits[i])]))

\* Lines 110-111.
KlLoss(real_kl, fake_kl) ==
    (reduce_mean(real_kl) - _kl_target + reduce_mean(fake_kl) - _kl_target) \div 2

\* Line 112, in units of 1e-8: disc_loss / Scale + (beta * 1e-8) * (kl_loss / Scale).
CompositeLoss(disc_loss, beta, kl_loss) ==
    disc_loss * LossUnits + (beta * kl_loss) \div Scale

\* The dual-ascent step without the floor at zero.
DualAscentNoFloor(beta, kl_loss) ==
    beta + _step_reg_param * (kl_loss - _kl_target)

\* Lines 118-120: max(0, beta + _step_reg_param * (kl_loss - kl_target)).
DualAscent(beta, kl_loss) ==
    Max(0, beta + _step_reg_param * (kl_loss - _kl_target))

\* The cast of logits > 0.5.
CastGeHalfStrict(logits) ==
    [i \in 1..Len(logits) |-> IF logits[i] > Scale \div 2 THEN Scale ELSE 0]

\* tf.cast(real_logits >= 0.5, tf.float32) (line 123).
CastGeHalf(logits) ==
    [i \in 1..Len(logits) |-> IF logits[i] >= Scale \div 2 THEN Scale ELSE 0]

\* tf.cast(fake_logits < 0.5, tf.float32) (line 124).
CastLtHalf(logits) ==
    [i \in 1..Len(logits) |-> IF logits[i] < Scale \div 2 THEN Scale ELSE 0]

\* Lines 122-124.
Accuracy(real_logits, fake_logits) ==
    reduce_mean(CastGeHalf(real_logits)) \div 2
    + reduce_mean(CastLtHalf(fake_logits)) \div 2

\* self.disc(inputs): every result Discriminator.call can give, one per draw of
\* the noise; the draw (line 41) comes after the concatenation (line 34).
Forward(th, inputs) ==
    IF ~ConcatOk(inputs) THEN {[ok |-> FALSE]}
    ELSE {Call(th, inputs, noise) : noise \in NoiseFor(inputs[1])}

Raised == [status |-> ShapeError, value |-> None]

-----------------------------------------------------------------------------
(* State after construction (VAIL.__init__, lines 65-72) *)

Init ==
    /\ theta \in Theta
    /\ reg_param \in InitRegParams
    /\ iterations = 0
    /\ pc = "idle"
    /\ call = NoCall
    /\ real = None
    /\ fake = None
    /\ tape = None
    /\ ret = NoReturn
    /\ _kl_target = kl_target
    /\ _step_reg_param = StepRegParam
    /\ pre = None
    /\ nTrain = 0
    /\ nAssign = 0

-----------------------------------------------------------------------------
(* VAIL.train / VAIL._train_body, statement by statement *)

\* Lines 102-103: the forward pass on the expert batch.
DiscReal ==
    /\ pc = "idle"
    /\ nTrain < MaxSteps
    /\ \E expert_states \in BatchTensors, expert_acts \in BatchTensors :
         \E out \in Forward(theta, <<expert_states, expert_acts>>) :
           /\ call' = [op |-> "train",
                       expert_states |-> expert_states.shape,
                       expert_acts |-> expert_acts.shape,
                       agent_states |-> None, agent_acts |-> None]
           /\ IF out.ok
              THEN /\ real' = [logits |-> out.logits, means |-> out.means,
                               logstds |-> out.logstds]
                   /\ pre' = [theta |-> theta, reg_param |-> reg_param]
                   /\ ret' = NoReturn
                   /\ pc' = "real"
              ELSE /\ real' = None
                   /\ pre' = None
                   /\ ret' = Raised
                   /\ pc' = "idle"
    /\ fake' = None
    /\ tape' = None
    /\ UNCHANGED <<theta, reg_param, iterations, nTrain, nAssign, hyper>>

\* Lines 104-105: the forward pass on the agent batch.
DiscFake ==
    /\ pc = "real"
    /\ \E agent_states \in BatchTensors, agent_acts \in BatchTensors :
         \E out \in Forward(theta, <<agent_states, agent_acts>>) :
           /\ call' = [call EXCEPT !.agent_states = agent_states.shape,
                                   !.agent_acts = agent_acts.shape]
           /\ IF out.ok
              THEN /\ fake' = [logits |-> out.logits, means |-> out.means,
                               logstds |-> out.logstds]
                   /\ UNCHANGED <<real, pre, ret>>
                   /\ pc' = "fake"
              ELSE /\ fake' = None
                   /\ real' = None
                   /\ pre' = None
                   /\ ret' = Raised
                   /\ pc' = "idle"
    /\ UNCHANGED <<theta, reg_param, iterations, tape, nTrain, nAssign, hyper>>

\* Lines 106-112: the losses, under the gradient tape.
ComputeLoss ==
    /\ pc = "fake"
    /\ LET disc_loss == DiscLoss(real.logits, fake.logits)
           real_kl == _compute_kl(real.means, real.logstds)
           fake_kl == _compute_kl(fake.means, fake.logstds)
           kl_loss == KlLoss(real_kl, fake_kl)
       IN  tape' = [disc_loss |-> disc_loss, real_kl |-> real_kl,
                    fake_kl |-> fake_kl, kl_loss |-> kl_loss,
                    loss |-> CompositeLoss(disc_loss, reg_param, kl_loss)]
    /\ pc' = "loss"
    /\ UNCHANGED <<theta, reg_param, iterations, call, real, fake, ret, pre,
                   nTrain, nAssign, hyper>>

\* Lines 113-115: one Adam update of the discriminator's variables.  The
\* gradient and Adam's moments are not modelled: the update may leave the
\* parameters at any point of Theta.
ApplyGradients ==
    /\ pc = "loss"
    /\ theta' \in Theta
    /\ iterations' = iterations + 1
    /\ pc' = "applied"
    /\ UNCHANGED <<reg_param, call, real, fake, tape, ret, pre, nTrain, nAssign, hyper>>

\* Lines 118-120: the dual-ascent update of beta.
AssignRegParam ==
    /\ pc = "applied"
    /\ reg_param' = DualAscent(reg_param, tape.kl_loss)
    /\ nAssign' = nAssign + 1
    /\ pc' = "assigned"
    /\ UNCHANGED <<theta, iterations, call, real, fake, tape, ret, pre, nTrain, hyper>>

\* The return of a step that evaluates the composite loss when it returns,
\* with the beta of that moment.
TrainReturnRecomputed ==
    /\ pc = "assigned"
    /\ ret' = [status |-> "ok",
               value |-> [loss |-> CompositeLoss(tape.disc_loss, reg_param,
                                                 tape.kl_loss),
                          accuracy |-> Accuracy(real.logits, fake.logits),
                          real_kl |-> reduce_mean(tape.real_kl),
                          fake_kl |-> reduce_mean(tape.fake_kl)]]
    /\ nTrain' = nTrain + 1
    /\ pc' = "returned"
    /\ UNCHANGED <<theta, reg_param, iterations, call, real, fake, tape, pre, nAssign, hyper>>

\* Lines 122-125: the accuracy and the returned tuple.
TrainReturn ==
    /\ pc = "assigned"
    /\ ret' = [status |-> "ok",
               value |-> [loss |-> tape.loss,
                          accuracy |-> Accuracy(real.logits, fake.logits),
                          real_kl |-> reduce_mean(tape.real_kl),
                          fake_kl |-> reduce_mean(tape.fake_kl)]]
    /\ nTrain' = nTrain + 1
    /\ pc' = "returned"
    /\ UNCHANGED <<theta, reg_param, iterations, call, real, fake, tape, pre, nAssign, hyper>>

\* A train that starts every step from beta = 0: it resets the coefficient
\* once the summaries are written.
TrainSummaryReset ==
    /\ pc = "returned"
    /\ pc' = "idle"
    /\ call' = NoCall
    /\ real' = None
    /\ fake' = None
    /\ tape' = None
    /\ ret' = NoReturn
    /\ pre' = None
    /\ reg_param' = 0
    /\ UNCHANGED <<theta, iterations, nTrain, nAssign, hyper>>

\* Lines 77-81: train writes the summaries and returns nothing; the frame of
\* _train_body is gone.
TrainSummary ==
    /\ pc = "returned"
    /\ pc' = "idle"
    /\ call' = NoCall
    /\ real' = None
    /\ fake' = None
    /\ tape' = None
    /\ ret' = NoReturn
    /\ pre' = None
    /\ UNCHANGED <<theta, reg_param, iterations, nTrain, nAssign, hyper>>

-----------------------------------------------------------------------------
(* VAIL.inference *)

\* The arguments as they come.
NoPromote(states, actions) == <<states, actions>>

\* Lines 128-130: a rank-1 pair is promoted to a batch of one.
Promote(states, actions) ==
    IF ndim(states) = 1 /\ ndim(actions) = 1
    THEN <<expand_dims(states), expand_dims(actions)>>
    ELSE <<states, actions>>

\* VAIL._inference_body (lines 133-136): log(compute_reward + 1e-8).
_inference_body(th, inputs) ==
    LET r == compute_reward(th, inputs) IN
    IF ~r.ok THEN Raised
    ELSE [status |-> "ok",
          value |-> [i \in 1..Len(r.probs) |-> <<Log(r.probs[i])>>]]

\* What inference would return if the reward came from the sampling forward
\* pass (Discriminator.call) instead of compute_reward.
InferenceSampled ==
    /\ pc = "idle"
    /\ \E states \in InferenceTensors, actions \in InferenceTensors :
         LET inputs == Promote(states, actions) IN
         /\ call' = [op |-> "inference", states |-> states, actions |-> actions]
         /\ \E out \in Forward(theta, inputs) :
              ret' = IF ~out.ok THEN Raised
                     ELSE [status |-> "ok",
                           value |-> [i \in 1..Len(out.logits) |->
                                         <<Log(out.logits[i])>>]]
    /\ UNCHANGED <<theta, reg_param, iterations, pc, real, fake, tape, pre,
                   nTrain, nAssign, hyper>>

\* VAIL.inference (lines 127-131).
Inference ==
    /\ pc = "idle"
    /\ \E states \in InferenceTensors, actions \in InferenceTensors :
         /\ call' = [op |-> "inference", states |-> states, actions |-> actions]
         /\ ret' = _inference_body(theta, Promote(states, actions))
    /\ UNCHANGED <<theta, reg_param, iterations, pc, real, fake, tape, pre,
                   nTrain, nAssign, hyper>>

-----------------------------------------------------------------------------

Next ==
    \/ DiscReal
    \/ DiscFake
    \/ ComputeLoss
    \/ ApplyGradients
    \/ AssignRegParam
    \/ TrainReturn
    \/ TrainSummary
    \/ Inference

Spec == Init /\ [][Next]_vars

-----------------------------------------------------------------------------
(* Properties *)

\* The training step in progress has computed its losses (lines 106-112).
HasTape == pc \in {"loss", "applied", "assigned", "returned"}

\* The training step in progress has executed the dual-ascent update.
BetaUpdated == pc \in {"assigned", "returned"}

\* C1: beta (_reg_param) is non-negative in every state, whatever the initial
\* beta >= 0 and whatever KL values the training steps meet.
C1_RegParamNonNegative == reg_param >= 0

\* C1 witness: a dual-ascent update whose raw result is negative was floored.
C1_FlooredAtZero ==
    /\ pc = "assigned"
    /\ pre.reg_param > 0
    /\ pre.reg_param + _step_reg_param * (tape.kl_loss - _kl_target) < 0
    /\ reg_param = 0

\* C2: in a training step whose mean real_kl and mean fake_kl both equal
\* kl_target = 0.5, beta after the dual-ascent update equals beta before it.
C2_UnchangedAtTarget ==
    (/\ BetaUpdated
     /\ _kl_target = Scale \div 2
     /\ reduce_mean(tape.real_kl) = _kl_target
     /\ reduce_mean(tape.fake_kl) = _kl_target)
    => reg_param = pre.reg_param

\* C3: the dual-ascent update moves beta in the direction of the constraint
\* violation: when the average of mean(real_kl) and mean(fake_kl) exceeds
\* kl_target beta grows; when it is below kl_target beta does not grow and
\* stays non-negative.
C3_DirectionOfUpdate ==
    BetaUpdated =>
        LET sum == reduce_mean(tape.real_kl) + reduce_mean(tape.fake_kl) IN
        /\ sum > 2 * _kl_target => reg_param > pre.reg_param
        /\ sum < 2 * _kl_target => reg_param <= pre.reg_param /\ reg_param >= 0

\* The leading dimension of a tensor.
Batch(shape) == shape[1]

\* C4: a training step called with malformed batches (the leading dimension
\* of a state batch differs from that of its action batch, or the agent batch
\* and the expert batch differ in batch size) fails instead of completing.
C4_MalformedBatchesFail ==
    pc = "returned" =>
        /\ Batch(call.expert_states) = Batch(call.expert_acts)
        /\ Batch(call.agent_states) = Batch(call.agent_acts)
        /\ Batch(call.agent_states) = Batch(call.expert_states)

\* C4 as amended: a training step fails with the shape error of tf.concat,
\* before anything is computed or updated, when the leading dimension of a
\* state batch differs from that of its action batch, in the expert or in the
\* agent pair; it does not fail because the two pairs differ in batch size.
C4_StateActionMismatchFails ==
    call.op = "train" =>
        /\ Batch(call.expert_states) # Batch(call.expert_acts)
             => pc = "idle" /\ ret = Raised /\ real = None /\ tape = None
        /\ (call.agent_states # None
            /\ Batch(call.agent_states) # Batch(call.agent_acts))
             => pc = "idle" /\ ret = Raised /\ real = None /\ tape = None

\* C4 witness: the agent pair of a training step did not fit, after the
\* expert pair had passed, and the step raised.
C4_AgentPairRaised ==
    /\ call.op = "train"
    /\ call.agent_states # None
    /\ Batch(call.expert_states) = Batch(call.expert_acts)
    /\ Batch(call.agent_states) # Batch(call.agent_acts)
    /\ ret = Raised

\* The samples of a vector of probabilities that satisfy a test.
GeHalf(logits) == {i \in 1..Len(logits) : 2 * logits[i] >= Scale}

LtHalf(logits) == {i \in 1..Len(logits) : 2 * logits[i] < Scale}

\* C5: the accuracy a training step returns is half the fraction of expert
\* samples with probability >= 0.5 plus half the fraction of agent samples
\* with probability < 0.5, and lies in [0, 1].
C5_BalancedAccuracy ==
    pc = "returned" =>
        /\ ret.value.accuracy =
              ((Scale * Cardinality(GeHalf(real.logits))) \div Len(real.logits)) \div 2
            + ((Scale * Cardinality(LtHalf(fake.logits))) \div Len(fake.logits)) \div 2
        /\ ret.value.accuracy >= 0
        /\ ret.value.accuracy <= Scale

\* C5 witness: a step returned for an expert batch with a probability of
\* exactly 0.5, counted as real, beside one below 0.5, and an agent batch
\* with one sample on each side.
C5_HalfCountsAsReal ==
    /\ pc = "returned"
    /\ Len(real.logits) = 2
    /\ Len(fake.logits) = 2
    /\ \E i \in 1..Len(real.logits) : 2 * real.logits[i] = Scale
    /\ Cardinality(GeHalf(real.logits)) = 1
    /\ Cardinality(LtHalf(fake.logits)) = 1
    /\ ret.value.accuracy = Scale \div 2

\* C6: inference on a rank-1 state with a rank-1 action returns what
\* inference on the same sample as rank-2 batches of one returns, under the
\* same parameters.
C6_RankOneAsBatchOfOne ==
    [][(/\ call.op = "inference"
        /\ call'.op = "inference"
        /\ theta' = theta
        /\ ndim(call.states) = 1
        /\ ndim(call.actions) = 1
        /\ call'.states = [shape |-> <<1>> \o call.states.shape,
                           data |-> <<call.states.data>>]
        /\ call'.actions = [shape |-> <<1>> \o call.actions.shape,
                            data |-> <<call.actions.data>>])
       => (ret.status = "ok" /\ ret' = ret)]_vars

\* C6 witness: inference on a rank-1 pair returned a reward.
C6_RankOneReturned ==
    /\ call.op = "inference"
    /\ ndim(call.states) = 1
    /\ ndim(call.actions) = 1
    /\ ret.status = "ok"
    /\ Len(ret.value) = 1

\* C7: two inference calls in a row with the same parameters and the same
\* input return the same output.
C7_InferenceDeterministic ==
    [][(/\ call.op = "inference"
        /\ call' = call
        /\ theta' = theta)
       => ret' = ret]_vars

\* C7 witness: after a training step, inference returned a reward for an
\* input on which the training forward pass gives different probabilities
\* for different draws of the noise.
C7_InferenceAfterTraining ==
    /\ call.op = "inference"
    /\ ret.status = "ok"
    /\ iterations > 0
    /\ LET inputs == Promote(call.states, call.actions) IN
       \E n1 \in NoiseFor(inputs[1]), n2 \in NoiseFor(inputs[1]) :
           Call(theta, inputs, n1).logits # Call(theta, inputs, n2).logits

\* C8: within a training step the composite loss disc_loss + beta * kl_loss
\* is computed from the parameters and the beta the step began with; then
\* the optimizer update is applied; then beta is updated from the kl_loss
\* computed before the parameter update; the step returns that first loss.
C8_OrderWithinStep ==
    /\ pc \in {"real", "fake", "loss"} =>
          /\ theta = pre.theta
          /\ reg_param = pre.reg_param
          /\ iterations = nTrain
          /\ nAssign = nTrain
    /\ HasTape =>
          /\ tape.disc_loss = DiscLoss(real.logits, fake.logits)
          /\ tape.kl_loss = KlLoss(_compute_kl(real.means, real.logstds),
                                   _compute_kl(fake.means, fake.logstds))
          /\ tape.loss = tape.disc_loss * LossUnits
                         + (pre.reg_param * tape.kl_loss) \div Scale
    /\ pc = "applied" =>
          /\ iterations = nTrain + 1
          /\ reg_param = pre.reg_param
          /\ nAssign = nTrain
    /\ BetaUpdated =>
          /\ reg_param = Max(0, pre.reg_param
                                + _step_reg_param * (tape.kl_loss - _kl_target))
    /\ pc = "returned" =>
          /\ ret.value.loss = tape.loss

\* C8 witness: a step returned after it had changed both the parameters and
\* beta, with a kl_loss that makes the loss depend on beta.
C8_ReturnedAfterBothUpdates ==
    /\ pc = "returned"
    /\ theta # pre.theta
    /\ reg_param # pre.reg_param
    /\ pre.reg_param > 0
    /\ tape.kl_loss # 0

\* C9: every log-std the discriminator's forward pass returns, for the
\* expert and for the agent batch, lies in [LOG_SIG_CAP_MIN, LOG_SIG_CAP_MAX].
C9_LogstdWithinCaps ==
    /\ pc \in {"real", "fake", "loss", "applied", "assigned", "returned"} =>
          \A i \in 1..Len(real.logstds) :
              real.logstds[i] \in LOG_SIG_CAP_MIN..LOG_SIG_CAP_MAX
    /\ pc \in {"fake", "loss", "applied", "assigned", "returned"} =>
          \A i \in 1..Len(fake.logstds) :
              fake.logstds[i] \in LOG_SIG_CAP_MIN..LOG_SIG_CAP_MAX

\* C9 witness: both forward passes ran under parameters whose log-std head
\* gives a value above the upper cap, and returned the cap.
C9_ClampedAtUpperCap ==
    /\ pc = "fake"
    /\ pre.theta.l_logstd.b > LOG_SIG_CAP_MAX
    /\ pre.theta.l_logstd.w = <<0>>
    /\ \A i \in 1..Len(real.logstds) : real.logstds[i] = LOG_SIG_CAP_MAX
    /\ \A i \in 1..Len(fake.logstds) : fake.logstds[i] = LOG_SIG_CAP_MAX

\* C10: the parameters change only in the optimizer update of a training
\* step and beta only in its dual-ascent update, each executed once per
\* completed step; inference changes neither; kl_target and the dual-ascent
\* step size never change.
C10_Frame ==
    [][/\ theta' # theta => pc = "loss" /\ pc' = "applied"
       /\ iterations' # iterations =>
              pc = "loss" /\ pc' = "applied" /\ iterations' = iterations + 1
       /\ reg_param' # reg_param => pc = "applied" /\ pc' = "assigned"
       /\ nAssign' # nAssign =>
              pc = "applied" /\ pc' = "assigned" /\ nAssign' = nAssign + 1
       /\ (pc = "idle" /\ call'.op = "inference") =>
              theta' = theta /\ reg_param' = reg_param
              /\ iterations' = iterations /\ nAssign' = nAssign
       /\ pc' \in {"idle", "returned"} =>
              iterations' = nTrain' /\ nAssign' = nTrain'
       /\ hyper' = hyper]_vars

\* C10 witness: inference ran between two training steps, after the first
\* had changed beta.
C10_InferenceBetweenSteps ==
    /\ call.op = "inference"
    /\ ret.status = "ok"
    /\ nTrain = 1
    /\ iterations = 1
    /\ nAssign = 1
    /\ reg_param > 300

=============================================================================
